---- MODULE Spec2Model ----
(***************************************************************************)
(* Model of bridgeservice.py: the WebSocket client (WSClient), its        *)
(* dispatcher (_on_message), the connection run loop (_run / stop), the   *)
(* inbox poll loop (SMSHandler.poll_loop) and the USSD helper             *)
(* (send_ussd_and_read).                                                   *)
(***************************************************************************)
EXTENDS Integers, Sequences, FiniteSets, TLC

\* ------------------------------------------------------------------ bounds
\* number of distinct connection tags (uuid namespace of bridge_hello)
MaxConn == 2
\* number of replies kept on the per-connection wire log after bridge_hello
MaxWire == 1
\* number of messages _on_message handles on one connection
MaxMsgs == 1
\* saturation bound of the consecutive-failure history counter
MaxFails == 3
\* number of distinct inbox record identifiers
NumIds == 3
\* longest inbox listing returned by one list_sms call
MaxListing == 2

\* ------------------------------------------------------- program constants
\* time.sleep(5) at the end of each _run iteration
ReconnectDelay == 5
\* len(self.last_seen_ids) > CEILING triggers the trim; the source value is
\* 2000 and the retained tail is 1000; the model scales both down so that
\* every subset the trim may retain can be enumerated
SeenCeiling == 2
SeenKeep == 1

\* ---------------------------------------------------------- python values
\* Python None / JSON null for string-valued slots
None == "None"

\* a JSON value read with dict.get(): tag "none" is None (absent or null),
\* tag "str" a string (sequence of characters), tag "int" an integer
PyNone == [tag |-> "none", s |-> <<>>, n |-> 0]
PyStr(s) == [tag |-> "str", s |-> s, n |-> 0]
PyInt(n) == [tag |-> "int", s |-> <<>>, n |-> n]

\* Python truthiness of such a value (`if not code`, `if pkg`)
Truthy(v) ==
  CASE v.tag = "none" -> FALSE
    [] v.tag = "str"  -> v.s # <<>>
    [] v.tag = "int"  -> v.n # 0

Digits == {"0", "1", "2", "3", "4", "5", "6", "7", "8", "9"}

\* int(sim) succeeds on an int and on a string of decimal digits; the empty
\* string and a string with any other character of the model's alphabet
\* raise ValueError
IntRaises(v) ==
  /\ v.tag = "str"
  /\ \/ v.s = <<>>
     \/ \E i \in 1..Len(v.s) : v.s[i] \notin Digits

DigitVal(c) ==
  CASE c = "0" -> 0 [] c = "1" -> 1 [] c = "2" -> 2 [] c = "3" -> 3
    [] c = "4" -> 4 [] c = "5" -> 5 [] c = "6" -> 6 [] c = "7" -> 7
    [] c = "8" -> 8 [] OTHER -> 9

RECURSIVE DecVal(_)
DecVal(s) ==
  IF s = <<>> THEN 0
  ELSE 10 * DecVal(SubSeq(s, 1, Len(s) - 1)) + DigitVal(s[Len(s)])

\* `int(sim) if sim is not None else 0`, for a value on which int() succeeds
IntOf(v) ==
  CASE v.tag = "none" -> 0
    [] v.tag = "int"  -> v.n
    [] v.tag = "str"  -> DecVal(v.s)

\* ------------------------------------------------------ strings and UI nodes
\* str.lower() on the letters the model's texts use
LowerChar(c) ==
  CASE c = "S" -> "s" [] c = "I" -> "i" [] c = "M" -> "m" [] c = "O" -> "o"
    [] c = "K" -> "k" [] c = "P" -> "p" [] OTHER -> c
Lower(t) == [i \in 1..Len(t) |-> LowerChar(t[i])]

\* str.strip(): leading and trailing blanks removed
RECURSIVE LStrip(_)
LStrip(t) == IF t # <<>> /\ Head(t) = " " THEN LStrip(Tail(t)) ELSE t
RECURSIVE RStrip(_)
RStrip(t) ==
  IF t # <<>> /\ t[Len(t)] = " " THEN RStrip(SubSeq(t, 1, Len(t) - 1)) ELSE t
Strip(t) == RStrip(LStrip(t))

\* `needle in hay` on strings
Contains(hay, needle) ==
  \E i \in 0..(Len(hay) - Len(needle)) : SubSeq(hay, i + 1, i + Len(needle)) = needle

\* the bounds attribute of a node: missing (""), a box "[l,t][r,b]", or text
\* in which the coordinate pattern does not occur twice
NoBounds == [kind |-> "none", l |-> 0, t |-> 0, r |-> 0, b |-> 0]
Box(l, t, r, b) == [kind |-> "box", l |-> l, t |-> t, r |-> r, b |-> b]
JunkBounds == [kind |-> "junk", l |-> 0, t |-> 0, r |-> 0, b |-> 0]

\* a <node> of the dumped hierarchy: class, text, content-desc, bounds
Node(cls, text, desc, bounds) == [cls |-> cls, text |-> text, desc |-> desc, bounds |-> bounds]

\* node.attrib.get('text') or node.attrib.get('content-desc') or ''
NodeText(n) == IF n.text # <<>> THEN n.text ELSE n.desc

\* Texts without the length test: every node with a text
RECURSIVE TextsAll(_)
TextsAll(screen) ==
  IF screen = <<>> THEN <<>>
  ELSE LET txt == NodeText(Head(screen))
       IN  (IF txt # <<>> THEN <<Strip(txt)>> ELSE <<>>) \o TextsAll(Tail(screen))

\* texts.append(txt.strip()) for each node with `txt and len(txt.strip()) > 3`
RECURSIVE Texts(_)
Texts(screen) ==
  IF screen = <<>> THEN <<>>
  ELSE LET txt == NodeText(Head(screen))
       IN  (IF txt # <<>> /\ Len(Strip(txt)) > 3 THEN <<Strip(txt)>> ELSE <<>>)
           \o Texts(Tail(screen))

\* max(texts, key=len): the first of the longest
MaxByLen(texts) ==
  texts[CHOOSE i \in 1..Len(texts) :
          /\ \A j \in 1..Len(texts) : Len(texts[j]) <= Len(texts[i])
          /\ \A j \in 1..(i - 1) : Len(texts[j]) < Len(texts[i])]

\* the response text taken from a parsed hierarchy, None when no node qualifies
ExtractText(screen) ==
  IF Texts(screen) = <<>> THEN PyNone ELSE PyStr(MaxByLen(Texts(screen)))

\* sim_targets of the fallback strategy
SimTargets ==
  <<<<"S", "I", "M", " ", "1">>,
    <<"S", "I", "M", " ", "2">>,
    <<"S", "I", "M", "1">>,
    <<"S", "I", "M", "2">>,
    <<"S", "I", "M", " ", "1">>,
    <<"S", "I", "M", " ", "2">>,
    <<"P", "i", "l", "i", "h", " ", "S", "I", "M">>,
    <<"P", "i", "l", "i", "h", " ", "k", "a", "r", "t", "u">>,
    <<"k", "a", "r", "t", "u", " ", "S", "I", "M", " ", "1">>,
    <<"k", "a", "r", "t", "u", " ", "S", "I", "M", " ", "2">>,
    <<"K", "a", "r", "t", "u", " ", "1">>,
    <<"K", "a", "r", "t", "u", " ", "2">>>>

\* candidates: nodes with bounds and a Button/TextView class or a text
IsCandidate(n) ==
  n.bounds.kind # "none" /\ (n.cls \in {"Button", "TextView"} \/ Strip(NodeText(n)) # <<>>)
RECURSIVE Candidates(_)
Candidates(screen) ==
  IF screen = <<>> THEN <<>>
  ELSE (IF IsCandidate(Head(screen))
        THEN <<[text |-> Strip(NodeText(Head(screen))), bounds |-> Head(screen).bounds]>>
        ELSE <<>>) \o Candidates(Tail(screen))

\* st.lower() of every target
LowTargets == {Lower(SimTargets[k]) : k \in 1..Len(SimTargets)}

\* a candidate whose lowered text contains a lowered target
MatchesTarget(text) ==
  text # <<>> /\ \E st \in LowTargets : Contains(Lower(text), st)

RECURSIVE NonEmpty(_)
NonEmpty(cands) ==
  IF cands = <<>> THEN <<>>
  ELSE (IF Head(cands).text # <<>> THEN <<Head(cands)>> ELSE <<>>) \o NonEmpty(Tail(cands))

\* the search for the tap target of one dump. A matching candidate makes the
\* code evaluate str(sim+1), and the pick by order evaluates sim < len(...):
\* both raise TypeError unless sim is an int. Python indexes a negative idx
\* from the end.
PickTarget(screen, sim) ==
  LET cands == Candidates(screen)
      hits  == {i \in 1..Len(cands) : MatchesTarget(cands[i].text)}
      ne    == NonEmpty(cands)
  IN  IF hits # {}
      THEN IF sim.tag # "int" THEN [raised |-> TRUE, found |-> FALSE, bounds |-> NoBounds]
           ELSE [raised |-> FALSE, found |-> TRUE,
                 bounds |-> cands[CHOOSE i \in hits : \A j \in hits : i <= j].bounds]
      ELSE IF ne = <<>> THEN [raised |-> FALSE, found |-> FALSE, bounds |-> NoBounds]
      ELSE IF sim.tag # "int" THEN [raised |-> TRUE, found |-> FALSE, bounds |-> NoBounds]
      ELSE LET idx == IF sim.n < Len(ne) THEN sim.n ELSE 0
               pos == IF idx >= 0 THEN idx + 1 ELSE Len(ne) + idx + 1
           IN  IF pos < 1 THEN [raised |-> TRUE, found |-> FALSE, bounds |-> NoBounds]
               ELSE [raised |-> FALSE, found |-> TRUE, bounds |-> ne[pos].bounds]

\* re.findall(r'\[(-?\d+),(-?\d+)\]', target_bounds) finds two pairs
Tappable(bounds) == bounds.kind = "box"
\* cx = (l+r)//2; cy = (t+b)//2
TapPoint(bounds) == <<(bounds.l + bounds.r) \div 2, (bounds.t + bounds.b) \div 2>>

\* ------------------------------------------------------------ USSD helper
\* characters urllib.parse.quote never escapes (letters, digits, "_.-~");
\* the dial alphabet of the model holds the digits only of these
AlwaysSafe == Digits \cup {"_", ".", "-", "~"}

\* Quote1 with every character of the dial alphabet declared safe
Quote1Raw(c) == <<c>>

\* percent escape of one character of the dial alphabet
Quote1(c) ==
  CASE c \in AlwaysSafe -> <<c>>
    [] c = "#" -> <<"%", "2", "3">>
    [] c = "*" -> <<"%", "2", "A">>
    [] c = "+" -> <<"%", "2", "B">>
    [] OTHER   -> <<"%", "3", "F">>

RECURSIVE _encode_ussd(_)
_encode_ussd(code) ==
  IF code = <<>> THEN <<>>
  ELSE Quote1(Head(code)) \o _encode_ussd(Tail(code))

\* result = {"ok": False, "error": None, "raw_ui": None, "ussd_text": None}
UssdResult0 == [ok |-> FALSE, error |-> None, raw_ui |-> None, ussd_text |-> PyNone]

\* one device call: what was asked of the device and whether the call raised
Cmd(kind, arg, raised) == [kind |-> kind, arg |-> arg, raised |-> raised]

\* the three dial intents, each issued through adb.shell inside try/except;
\* fail[i] says whether the i-th call raises
DialCmds(enc, fail) == [i \in 1..3 |-> Cmd("dial", enc, fail[i])]

\* dialed = True as soon as one adb.shell(it) returns
Dialed(fail) == \E i \in 1..3 : ~fail[i]

\* SIM-choice resolution and response capture after a successful dial.
\* env.u2     "absent": UIAUTOMATOR2_AVAILABLE is False
\*            "raise" : the uiautomator2 block raises (connect, dump_hierarchy)
\*            "ok"    : the uiautomator2 block runs to its return
\* env.u2click whether the uiautomator2 block clicked a label or a button
\* env.tapAt  the fallback attempt (1..4) whose dump yields a tap target,
\*            0 when none of the four does
\* env.text   the text taken from the captured hierarchy, None if none
U2Tail(env) ==
  [cmds |-> (IF env.u2click THEN <<Cmd("u2_click", <<>>, FALSE)>> ELSE <<>>)
            \o <<Cmd("u2_dump", <<>>, FALSE)>>,
   result |-> [ok |-> TRUE, error |-> None, raw_ui |-> "ui", ussd_text |-> env.text]]

FallbackAttempts(env) == IF env.tapAt = 0 THEN 4 ELSE env.tapAt

RECURSIVE FallbackCmds(_, _)
FallbackCmds(env, attempt) ==
  IF attempt > FallbackAttempts(env) THEN <<>>
  ELSE <<Cmd("ui_dump", <<>>, FALSE)>>
       \o (IF attempt = env.tapAt THEN <<Cmd("tap", <<>>, FALSE)>> ELSE <<>>)
       \o FallbackCmds(env, attempt + 1)

FallbackTail(env) ==
  [cmds |-> FallbackCmds(env, 1) \o <<Cmd("ui_dump", <<>>, FALSE)>>,
   result |-> [ok |-> TRUE, error |-> None, raw_ui |-> "ui", ussd_text |-> env.text]]

\* the uiautomator2 block raising sends control to the fallback; a click made
\* before the raise has already happened
UssdTail(env) ==
  IF env.u2 = "ok" THEN U2Tail(env)
  ELSE LET f == FallbackTail(env)
       IN  IF env.u2 = "raise"
           THEN [f EXCEPT !.cmds =
                   (IF env.u2click THEN <<Cmd("u2_click", <<>>, FALSE)>> ELSE <<>>)
                   \o <<Cmd("u2", <<>>, TRUE)>> \o @]
           ELSE f

\* EmptyCode testing for None alone (`if code is None`)
EmptyCodeNoneOnly(code) == code.tag = "none"

\* `if not code` : the early return of an empty code
EmptyCode(code) == ~Truthy(code)

\* send_ussd_and_read(adb, code, sim): the result dict and the device calls
send_ussd_and_read(code, sim, env) ==
  IF EmptyCode(code)
  THEN [result |-> [UssdResult0 EXCEPT !.error = "empty code"], cmds |-> <<>>]
  ELSE IF code.tag # "str"
  THEN \* urllib.parse.quote of a non-string raises; outer except
       [result |-> [UssdResult0 EXCEPT !.error = "exception"], cmds |-> <<>>]
  ELSE IF IntRaises(sim)
  THEN [result |-> [UssdResult0 EXCEPT !.error = "exception"], cmds |-> <<>>]
  ELSE LET enc  == _encode_ussd(code.s)
           dial == DialCmds(enc, env.fail)
       IN  IF ~Dialed(env.fail)
           THEN [result |-> [UssdResult0 EXCEPT !.error = "failed to send dial intent"],
                 cmds |-> dial]
           ELSE LET t == UssdTail(env)
                IN  [result |-> t.result, cmds |-> dial \o t.cmds]

\* ------------------------------------------------------------- SMS sending
\* send_sms giving up after the two adb intents
send_smsNoFallback(sim, fail) ==
  IF IntRaises(sim) THEN [raised |-> TRUE, ok |-> FALSE, cmds |-> <<>>]
  ELSE IF ~fail[1]
  THEN [raised |-> FALSE, ok |-> TRUE, cmds |-> <<Cmd("sms_intent", <<>>, FALSE)>>]
  ELSE [raised |-> FALSE, ok |-> ~fail[2],
        cmds |-> <<Cmd("sms_intent", <<>>, TRUE), Cmd("sms_intent", <<>>, fail[2])>>]

\* SMSHandler.send_sms: two adb intents, then termux-sms-send; the first call
\* that returns ends the function with True. fail[i] says whether the i-th
\* call raises. int(sim) raising leaves the function by exception.
send_sms(sim, fail) ==
  IF IntRaises(sim) THEN [raised |-> TRUE, ok |-> FALSE, cmds |-> <<>>]
  ELSE IF ~fail[1]
  THEN [raised |-> FALSE, ok |-> TRUE, cmds |-> <<Cmd("sms_intent", <<>>, FALSE)>>]
  ELSE IF ~fail[2]
  THEN [raised |-> FALSE, ok |-> TRUE,
        cmds |-> <<Cmd("sms_intent", <<>>, TRUE), Cmd("sms_intent", <<>>, FALSE)>>]
  ELSE [raised |-> FALSE, ok |-> ~fail[3],
        cmds |-> <<Cmd("sms_intent", <<>>, TRUE), Cmd("sms_intent", <<>>, TRUE),
                   Cmd("termux_sms_send", <<>>, fail[3])>>]

\* --------------------------------------------------------------- dispatcher
\* request ids are opaque tokens; NoId stands for a missing id (None)
NoId == 0
\* str(uuid.uuid4()) of the hello sent on connection c: distinct from every
\* request id and from the hello of the neighbouring connections
Uuid(c) == 100 + c

\* a message handed to _on_message: text that json.loads rejects ("garbage"),
\* a JSON value that is not an object ("nonmap"), or an object ("map") with
\* its action, id and data; data is either not an object or an object read
\* with .get
Msg(kind, action, id, data) == [kind |-> kind, action |-> action, id |-> id, data |-> data]
Data(isMap, pkg, code, sim) == [isMap |-> isMap, pkg |-> pkg, code |-> code, sim |-> sim]

\* the dispatcher's outcome: whether _on_message left by exception, the events
\* it passed to self.send in order, and the device calls it made
Outcome(raised, events, cmds) == [raised |-> raised, events |-> events, cmds |-> cmds]

\* json.loads(message) raising: the `except Exception: return` of _on_message
ParseFails(m) == m.kind = "garbage"

\* the send_sms branch
HandleSendSms(m, env) ==
  IF ~m.data.isMap THEN Outcome(TRUE, <<>>, <<>>)
  ELSE LET r == send_sms(m.data.sim, env.fail)
       IN  IF r.raised THEN Outcome(TRUE, <<>>, r.cmds)
           ELSE Outcome(FALSE,
                        <<[type |-> "send_sms_result", ok |-> r.ok, id |-> m.id]>>,
                        r.cmds)

\* HandleOpenApp with the error event sent without the request id
HandleOpenAppNoId(m, env) ==
  IF ~m.data.isMap THEN Outcome(TRUE, <<>>, <<>>)
  ELSE IF ~Truthy(m.data.pkg)
  THEN Outcome(FALSE, <<[type |-> "open_app_result", ok |-> FALSE, id |-> m.id]>>, <<>>)
  ELSE IF env.fail[1]
  THEN Outcome(FALSE,
               <<[type |-> "error", msg |-> "exception", id |-> NoId],
                 [type |-> "open_app_result", ok |-> FALSE, id |-> m.id]>>,
               <<Cmd("monkey", <<>>, TRUE)>>)
  ELSE Outcome(FALSE, <<[type |-> "open_app_result", ok |-> TRUE, id |-> m.id]>>,
               <<Cmd("monkey", <<>>, FALSE)>>)

\* the open_app branch: an error event in the except clause, then the result
HandleOpenApp(m, env) ==
  IF ~m.data.isMap THEN Outcome(TRUE, <<>>, <<>>)
  ELSE IF ~Truthy(m.data.pkg)
  THEN Outcome(FALSE, <<[type |-> "open_app_result", ok |-> FALSE, id |-> m.id]>>, <<>>)
  ELSE IF env.fail[1]
  THEN Outcome(FALSE,
               <<[type |-> "error", msg |-> "exception", id |-> m.id],
                 [type |-> "open_app_result", ok |-> FALSE, id |-> m.id]>>,
               <<Cmd("monkey", <<>>, TRUE)>>)
  ELSE Outcome(FALSE, <<[type |-> "open_app_result", ok |-> TRUE, id |-> m.id]>>,
               <<Cmd("monkey", <<>>, FALSE)>>)

\* the adb_shell branch
HandleAdbShell(m, env) ==
  IF ~m.data.isMap THEN Outcome(TRUE, <<>>, <<>>)
  ELSE Outcome(FALSE,
               <<[type |-> "adb_shell_result",
                  out |-> IF env.fail[1] THEN "exception" ELSE "out", id |-> m.id]>>,
               <<Cmd("shell", <<>>, env.fail[1])>>)

\* the send_ussd branch
HandleSendUssd(m, env) ==
  IF ~m.data.isMap THEN Outcome(TRUE, <<>>, <<>>)
  ELSE LET r == send_ussd_and_read(m.data.code, m.data.sim, env)
       IN  Outcome(FALSE,
                   <<[type |-> "send_ussd_result", result |-> r.result, id |-> m.id]>>,
                   r.cmds)

\* the else branch without its send: the envelope is passed over
HandleUnknownDrop(m) == Outcome(FALSE, <<>>, <<>>)

\* the else branch
HandleUnknown(m) ==
  Outcome(FALSE, <<[type |-> "unknown_action", action |-> m.action, id |-> m.id]>>, <<>>)

\* WSClient._on_message
_on_message(m, env) ==
  IF ParseFails(m) THEN Outcome(FALSE, <<>>, <<>>)
  ELSE IF m.kind = "nonmap" THEN Outcome(TRUE, <<>>, <<>>)
  ELSE CASE m.action = "send_sms"  -> HandleSendSms(m, env)
         [] m.action = "open_app"  -> HandleOpenApp(m, env)
         [] m.action = "adb_shell" -> HandleAdbShell(m, env)
         [] m.action = "send_ussd" -> HandleSendUssd(m, env)
         [] OTHER                  -> HandleUnknown(m)

\* ------------------------------------------------------------ input spaces
ReqIds == {NoId, 1, 2}
\* which of the three device calls of a handler raise
Fails == [1..3 -> BOOLEAN]
NoneFail == <<FALSE, FALSE, FALSE>>
AllFail == <<TRUE, TRUE, TRUE>>
Sims  == {PyInt(0), PyInt(1), PyStr(<<"x">>)}
Codes == {PyNone, PyStr(<<>>), PyStr(<<"*", "1", "#">>)}
Pkgs  == {PyNone, PyStr(<<"p">>)}
\* data that is not a JSON object, and the empty object
BadData == Data(FALSE, PyNone, PyNone, PyInt(0))
NoData  == Data(TRUE, PyNone, PyNone, PyInt(0))

RecognizedActions == {"send_sms", "open_app", "adb_shell", "send_ussd"}
OtherActions == {"find_ui", "click_ui", None}

Messages ==
  {Msg("garbage", None, NoId, BadData), Msg("nonmap", None, NoId, BadData)}
  \cup {Msg("map", "send_sms", i, d) :
          i \in ReqIds, d \in {BadData} \cup {Data(TRUE, PyNone, PyNone, sm) : sm \in Sims}}
  \cup {Msg("map", "open_app", i, d) :
          i \in ReqIds, d \in {BadData} \cup {Data(TRUE, p, PyNone, PyInt(0)) : p \in Pkgs}}
  \cup {Msg("map", "adb_shell", i, d) : i \in ReqIds, d \in {BadData, NoData}}
  \cup {Msg("map", "send_ussd", i, d) :
          i \in ReqIds,
          d \in {BadData} \cup {Data(TRUE, PyNone, c, sm) : c \in Codes, sm \in Sims}}
  \cup {Msg("map", a, i, d) : a \in OtherActions, i \in ReqIds, d \in {BadData, NoData}}

Env(fail, u2, u2click, tapAt, text) ==
  [fail |-> fail, u2 |-> u2, u2click |-> u2click, tapAt |-> tapAt, text |-> text]
\* the ways the screen can behave after the dial, as the dispatcher sees them
Resp == PyStr(<<"P", "u", "l", "s", "a", " ", "5", "0">>)
Tails ==
  {Env(NoneFail, "ok", TRUE, 0, Resp),
   Env(NoneFail, "raise", FALSE, 2, Resp),
   Env(NoneFail, "absent", FALSE, 0, PyNone),
   Env(NoneFail, "absent", FALSE, 4, Resp)}
NoTail(f) == Env(f, "absent", FALSE, 0, PyNone)
\* the device behaviour a message can observe: send_sms makes up to three
\* calls, open_app and adb_shell one, send_ussd the dial calls and the tail
EnvsFor(m) ==
  CASE m.kind # "map" \/ ~m.data.isMap -> {NoTail(NoneFail)}
    [] m.action = "send_sms" -> {NoTail(f) : f \in Fails}
    [] m.action \in {"open_app", "adb_shell"} -> {NoTail(NoneFail), NoTail(AllFail)}
    [] m.action = "send_ussd" ->
         IF EmptyCode(m.data.code) \/ IntRaises(m.data.sim) THEN {NoTail(NoneFail)}
         ELSE Tails \cup {NoTail(AllFail), Env(<<TRUE, FALSE, FALSE>>, "absent", FALSE, 0, PyNone)}
    [] OTHER -> {NoTail(NoneFail)}

\* ----------------------------------------------------------------- state
VARIABLES
  stopFlag,   \* self._stop: the cancellation flag
  stopCalled, \* stop() has returned
  pc,         \* position of the _run thread
  ws,         \* self.ws: 0 for None, else the tag of the WebSocketApp
  sock,       \* socket of the app self.ws names
  opened,     \* on_open of this connection: "no", "pending", "done"
  conn,       \* tag of the latest WebSocketApp created
  fails,      \* consecutive run_forever returns since the last open
  slept,      \* seconds slept since run_forever last returned
  hellos,     \* ids of the bridge_hello events passed to send on this connection
  wire,       \* types of the events the peer received on this connection
  nmsgs,      \* messages handled on this connection
  last,       \* the message _on_message handled last on this connection
  last_seen_ids, \* SMSHandler.last_seen_ids
  pollPc,     \* position of the poll thread
  pollNew,    \* reversed(new) still to be sent in this cycle
  cycle,      \* what this poll cycle listed, found unseen and handed to send
  ussd,       \* one run of send_ussd_and_read, step by step
  quoted,     \* one call of _encode_ussd: the code and the dial string
  dev         \* handlers in progress on the receive thread, their device
              \* calls, the poll thread's listing call, and the request log

wsVars == <<stopFlag, stopCalled, pc, ws, sock, opened, conn, fails, slept, hellos,
            wire, nmsgs, last>>
pollVars == <<last_seen_ids, pollPc, pollNew, cycle>>
callVars == <<ussd, quoted, dev>>
vars == <<wsVars, pollVars, callVars>>

NoLast == [msg |-> Msg("garbage", None, NoId, BadData), raised |-> FALSE, events |-> <<>>, cmds |-> <<>>, delivered |-> 0, sendRaised |-> FALSE]
\* a poll cycle: the listing it read, the SeenSet it started from, the
\* identifiers whose event reached the peer, whether the scan raised, whether
\* a send raised into the loop, and how the latest lost event was lost
NoCycle == [listing |-> <<>>, before |-> {}, got |-> <<>>, raised |-> FALSE,
            sendRaised |-> FALSE, lost |-> "no", failed |-> FALSE]

\* the wire log keeps the bridge_hello of the connection and the latest events:
\* when it is full the oldest event that is not the hello is dropped
RECURSIVE Keep(_)
Keep(w) ==
  IF Len(w) > MaxWire + 1
  THEN LET d == CHOOSE i \in 1..Len(w) :
                  /\ w[i] # "bridge_hello"
                  /\ \A j \in 1..(i - 1) : w[j] = "bridge_hello"
       IN  Keep(SubSeq(w, 1, d - 1) \o SubSeq(w, d + 1, Len(w)))
  ELSE w

\* no run of the USSD helper yet; no call of _encode_ussd yet
NoRun ==
  [pc |-> "idle", code |-> PyNone, sim |-> PyNone, u2avail |-> FALSE, enc |-> <<>>,
   dials |-> 0, dialed |-> FALSE, u2ran |-> FALSE, attempts |-> 0,
   chosen |-> FALSE, selects |-> 0, captured |-> FALSE,
   shot |-> [kind |-> "none", screen |-> <<>>],
   result |-> UssdResult0]
NoQuote == [called |-> FALSE, code |-> <<>>, enc |-> <<>>]
\* no handler in progress, no listing in flight, nothing received or answered
NoDev == [active |-> <<>>, poll |-> FALSE, reqs |-> <<>>, reps |-> <<>>]

Types(events) == [i \in 1..Len(events) |-> events[i].type]

Min(a, b) == IF a < b THEN a ELSE b

Init ==
  /\ stopFlag = FALSE /\ stopCalled = FALSE
  /\ pc = "check" /\ ws = 0 /\ sock = "none" /\ opened = "no"
  /\ conn = 0 /\ fails = 0 /\ slept = 0 /\ hellos = <<>>
  /\ wire = <<>> /\ nmsgs = 0 /\ last = NoLast
  /\ last_seen_ids = {} /\ pollPc = "list" /\ pollNew = <<>> /\ cycle = NoCycle
  /\ ussd = NoRun /\ quoted = NoQuote /\ dev = NoDev

\* ------------------------------------------------------------- WSClient._run
\* LoopCond with a retry cap: the loop gives up after two failures in a row
LoopCondGiveUp(stop, failures) == ~stop /\ failures < 2

\* `while not self._stop.is_set()`
LoopCond(stop, failures) == ~stop

RunCheck ==
  /\ pc = "check"
  /\ pc' = IF LoopCond(stopFlag, fails) THEN "create" ELSE "exited"
  /\ UNCHANGED <<stopFlag, stopCalled, ws, sock, opened, conn, fails, slept, hellos,
                 wire, nmsgs, last>>
  /\ UNCHANGED pollVars
  /\ UNCHANGED callVars

\* self.ws = websocket.WebSocketApp(...); self.ws.run_forever() starts
RunCreate ==
  /\ pc = "create"
  /\ conn' = (conn % MaxConn) + 1
  /\ ws' = conn'
  /\ sock' = "connecting"
  /\ opened' = "no"
  /\ hellos' = <<>> /\ wire' = <<>> /\ nmsgs' = 0 /\ last' = NoLast
  /\ pc' = "running"
  /\ UNCHANGED <<stopFlag, stopCalled, fails, slept>>
  /\ UNCHANGED pollVars
  /\ UNCHANGED callVars

\* the handshake succeeds: run_forever will call on_open
ConnOpen ==
  /\ pc = "running" /\ sock = "connecting"
  /\ sock' = "open" /\ opened' = "pending" /\ fails' = 0
  /\ UNCHANGED <<stopFlag, stopCalled, pc, ws, conn, slept, hellos, wire, nmsgs, last>>
  /\ UNCHANGED pollVars
  /\ UNCHANGED callVars

\* the handshake fails
ConnFail ==
  /\ pc = "running" /\ sock = "connecting"
  /\ sock' = "closed"
  /\ UNCHANGED <<stopFlag, stopCalled, pc, ws, opened, conn, fails, slept, hellos,
                 wire, nmsgs, last>>
  /\ UNCHANGED pollVars
  /\ UNCHANGED callVars

\* the peer or the network closes an open socket
ConnDrop ==
  /\ sock = "open"
  /\ sock' = "closed"
  /\ UNCHANGED <<stopFlag, stopCalled, pc, ws, opened, conn, fails, slept, hellos,
                 wire, nmsgs, last>>
  /\ UNCHANGED pollVars
  /\ UNCHANGED callVars

\* self.ws.send(...) of the transport raises when its socket is not open
TransportRaises(socket) == socket # "open"

\* send without its try/except
sendUnguarded(handle, socket) ==
  [raised |-> handle # 0 /\ TransportRaises(socket),
   sent |-> handle # 0 /\ ~TransportRaises(socket)]

\* WSClient.send: passes the event to the transport when self.ws is set; the
\* except clause drops whatever the transport raises
send(handle, socket) ==
  [raised |-> FALSE, sent |-> handle # 0 /\ ~TransportRaises(socket)]

\* the event reached the peer
Delivered(handle, socket) == send(handle, socket).sent

\* WSClient._on_open: gathers the profile and sends bridge_hello
HelloEvents(c) == <<[type |-> "bridge_hello", id |-> Uuid(c)]>>

OnOpen ==
  /\ pc = "running" /\ opened = "pending"
  /\ opened' = "done"
  /\ hellos' = hellos \o [i \in 1..Len(HelloEvents(conn)) |-> HelloEvents(conn)[i].id]
  /\ wire' = IF Delivered(ws, sock)
             THEN Keep(wire \o Types(HelloEvents(conn))) ELSE wire
  /\ UNCHANGED <<stopFlag, stopCalled, pc, ws, sock, conn, fails, slept, nmsgs, last>>
  /\ UNCHANGED pollVars
  /\ UNCHANGED callVars

\* CanReceive with messages dispatched while on_open is still to run
CanReceiveEarly(o) == o \in {"pending", "done"}

\* run_forever dispatches a received message only after on_open has returned
CanReceive(o) == o = "done"

\* the sends of the handler of m: the socket may die before any of them,
\* the first k events reach the peer
Reply(m, env) ==
  LET o == _on_message(m, env)
  IN  \E k \in 0..(IF sock = "open" THEN Len(o.events) ELSE 0) :
        LET dead == k < Len(o.events)
            \* a send that raises ends the handler at that event
            cut  == dead /\ send(ws, "closed").raised
        IN  /\ last' = [msg |-> m, raised |-> o.raised \/ cut,
                        events |-> IF cut THEN SubSeq(o.events, 1, k + 1)
                                          ELSE o.events,
                        cmds |-> o.cmds, delivered |-> k, sendRaised |-> cut]
            /\ wire' = Keep(wire \o SubSeq(Types(o.events), 1, k))
            /\ sock' = IF dead /\ sock = "open" THEN "closed" ELSE sock

\* run_forever reads one message and calls _on_message
OnMessage ==
  /\ pc = "running" /\ CanReceive(opened) /\ sock = "open"
  /\ nmsgs < MaxMsgs
  /\ nmsgs' = nmsgs + 1
  /\ \E m \in Messages : \E env \in EnvsFor(m) : Reply(m, env)
  /\ UNCHANGED <<stopFlag, stopCalled, pc, ws, opened, conn, fails, slept, hellos>>
  /\ UNCHANGED pollVars
  /\ UNCHANGED callVars

\* run_forever returns (or raises) once the socket is closed
RunReturn ==
  /\ pc = "running" /\ sock = "closed" /\ opened # "pending"
  /\ pc' = "sleep"
  /\ fails' = Min(fails + 1, MaxFails)
  /\ slept' = 0
  /\ UNCHANGED <<stopFlag, stopCalled, ws, sock, opened, conn, hellos, wire, nmsgs, last>>
  /\ UNCHANGED pollVars
  /\ UNCHANGED callVars

\* time.sleep(5)
RunSleep ==
  /\ pc = "sleep"
  /\ slept' = slept + ReconnectDelay
  /\ pc' = "check"
  /\ UNCHANGED <<stopFlag, stopCalled, ws, sock, opened, conn, fails, hellos, wire, nmsgs, last>>
  /\ UNCHANGED pollVars
  /\ UNCHANGED callVars

\* WSClient.stop, called once from the main thread
Stop ==
  /\ ~stopCalled
  /\ stopFlag' = TRUE /\ stopCalled' = TRUE
  /\ sock' = IF ws # 0 /\ sock \in {"connecting", "open"} THEN "closed" ELSE sock
  /\ UNCHANGED <<pc, ws, opened, conn, fails, slept, hellos, wire, nmsgs, last>>
  /\ UNCHANGED pollVars
  /\ UNCHANGED callVars

\* ------------------------------------------------------ SMSHandler.poll_loop
\* an inbox record as termux-sms-list returns it: a JSON object with its id,
\* date and timestamp (0 when missing or falsy), or an element on which
\* m.get or the set lookup raises (not an object, or an unhashable id)
Rec(id, date, ts) == [isDict |-> TRUE, id |-> id, date |-> date, timestamp |-> ts]
BadRec == [isDict |-> FALSE, id |-> 0, date |-> 0, timestamp |-> 0]

\* json.dumps(m) of a record without id, date and timestamp
Dump(m) == -1

\* mid = m.get('id') or m.get('date') or m.get('timestamp') or json.dumps(m)
Mid(m) ==
  IF m.id # 0 THEN m.id
  ELSE IF m.date # 0 THEN m.date
  ELSE IF m.timestamp # 0 THEN m.timestamp
  ELSE Dump(m)

Records == {Rec(k, 0, 0) : k \in 1..NumIds} \cup {Rec(0, 1, 0), BadRec}
\* what list_sms can return: [] on failure or an empty inbox, else records
Listings == UNION {[1..n -> Records] : n \in 0..MaxListing}

\* the first loop of a cycle: each record with an unseen mid is appended to
\* new and its mid added to last_seen_ids; a bad element raises and ends it
RECURSIVE Scan(_, _, _)
Scan(listing, seen, new) ==
  IF listing = <<>> THEN [seen |-> seen, new |-> new, raised |-> FALSE]
  ELSE LET m == Head(listing)
       IN  IF ~m.isDict THEN [seen |-> seen, new |-> new, raised |-> TRUE]
           ELSE IF Mid(m) \notin seen
           THEN Scan(Tail(listing), seen \cup {Mid(m)}, Append(new, m))
           ELSE Scan(Tail(listing), seen, new)

RECURSIVE Reverse(_)
Reverse(q) == IF q = <<>> THEN <<>> ELSE Append(Reverse(Tail(q)), Head(q))

\* `for m in reversed(new)`: the order in which the events are sent
EmitOrder(new) == Reverse(new)

\* what list_sms returned, and the scan of the listing; a listing call that
\* fails (run_local or json.loads raising) returns the empty list
Listed ==
  \E listing \in Listings, failed \in BOOLEAN :
    LET r == Scan(listing, last_seen_ids, <<>>)
    IN  /\ failed => listing = <<>>
        /\ last_seen_ids' = r.seen
        /\ cycle' = [NoCycle EXCEPT !.listing = listing, !.before = last_seen_ids,
                                     !.raised = r.raised, !.failed = failed]
        /\ pollNew' = IF r.raised THEN <<>> ELSE EmitOrder(r.new)
        /\ pollPc' = IF r.raised THEN "sleep" ELSE "emit"

\* msgs = self.list_sms() and the scan of the listing, as one step
PollList ==
  /\ pollPc = "list" /\ ~dev.poll
  /\ Listed
  /\ UNCHANGED wsVars
  /\ UNCHANGED callVars

\* self.ws.send(json.dumps({"type":"sms_received","data":m})) for one record
PollEmit ==
  /\ pollPc = "emit" /\ pollNew # <<>>
  /\ pollNew' = Tail(pollNew)
  /\ IF Delivered(ws, sock)
     THEN /\ cycle' = [cycle EXCEPT !.got = Append(@, Mid(Head(pollNew)))]
          /\ wire' = Keep(Append(wire, "sms_received"))
     ELSE /\ cycle' = [cycle EXCEPT !.sendRaised = @ \/ send(ws, sock).raised,
                                    !.lost = IF ws = 0 THEN "absent" ELSE "failed"]
          /\ UNCHANGED wire
  /\ UNCHANGED <<stopFlag, stopCalled, pc, ws, sock, opened, conn, fails, slept, hellos,
                 nmsgs, last>>
  /\ UNCHANGED <<last_seen_ids, pollPc>>
  /\ UNCHANGED callVars

\* `if len(self.last_seen_ids) > 2000: ... = set(list(...)[-1000:])`: the
\* retained identifiers are whichever the set iterates last
PollTrim ==
  /\ pollPc = "emit" /\ pollNew = <<>>
  /\ IF Cardinality(last_seen_ids) > SeenCeiling
     THEN \E keep \in SUBSET last_seen_ids :
            /\ Cardinality(keep) = SeenKeep
            /\ last_seen_ids' = keep
     ELSE UNCHANGED last_seen_ids
  /\ pollPc' = "sleep"
  /\ UNCHANGED <<pollNew, cycle>>
  /\ UNCHANGED wsVars
  /\ UNCHANGED callVars

\* time.sleep(POLL_SMS_INTERVAL), then the next cycle
PollSleep ==
  /\ pollPc = "sleep"
  /\ pollPc' = "list"
  /\ cycle' = NoCycle
  /\ UNCHANGED <<last_seen_ids, pollNew>>
  /\ UNCHANGED wsVars
  /\ UNCHANGED callVars

\* ------------------------------------------------- the two threads, by call
\* list_sms begins: run_local("termux-sms-list") is started
PollListBegin ==
  /\ pollPc = "list" /\ ~dev.poll
  /\ dev' = [dev EXCEPT !.poll = TRUE]
  /\ UNCHANGED <<ussd, quoted, wsVars, pollVars>>

\* list_sms returns and the listing is scanned
PollListEnd ==
  /\ pollPc = "list" /\ dev.poll
  /\ Listed
  /\ dev' = [dev EXCEPT !.poll = FALSE]
  /\ UNCHANGED <<ussd, quoted>>
  /\ UNCHANGED wsVars

\* number of messages run_forever hands to _on_message on one connection
MaxHandled == 2

\* the requests followed call by call, and the device behaviour each meets
HandlerMessages ==
  {Msg("map", a, i, NoData) : a \in {"adb_shell", "find_ui"}, i \in {1, 2}}
  \cup {Msg("map", "send_ussd", i, Data(TRUE, PyNone, PyStr(<<"*", "1", "#">>), PyInt(0))) :
          i \in {1, 2}}
HandlerEnv(m) ==
  IF m.action = "send_ussd" THEN Env(NoneFail, "ok", FALSE, 0, Resp) ELSE NoTail(NoneFail)

\* run_forever calling _on_message for a frame while a handler is running
CanDispatchAlways(active) == TRUE

\* run_forever reads the next frame only after the callback has returned
CanDispatch(active) == active = <<>>

\* a handler in progress: its message, the device calls still to make and
\* whether one is in flight
Handler(m, left) == [m |-> m, left |-> left, busy |-> FALSE]

Without(q, i) == SubSeq(q, 1, i - 1) \o SubSeq(q, i + 1, Len(q))

\* run_forever reads a frame and enters _on_message
HandlerBegin ==
  /\ pc = "running" /\ CanReceive(opened) /\ sock = "open"
  /\ CanDispatch(dev.active)
  /\ nmsgs < MaxHandled
  /\ nmsgs' = nmsgs + 1
  /\ \E m \in HandlerMessages :
       dev' = [dev EXCEPT
                 !.active = Append(@, Handler(m, Len(_on_message(m, HandlerEnv(m)).cmds))),
                 !.reqs = Append(@, m.id)]
  /\ UNCHANGED <<stopFlag, stopCalled, pc, ws, sock, opened, conn, fails, slept, hellos,
                 wire, last>>
  /\ UNCHANGED <<ussd, quoted>>
  /\ UNCHANGED pollVars

\* a handler starts its next device call
DevCallBegin ==
  /\ \E i \in 1..Len(dev.active) :
       /\ dev.active[i].left > 0 /\ ~dev.active[i].busy
       /\ dev' = [dev EXCEPT !.active[i].busy = TRUE]
  /\ UNCHANGED <<ussd, quoted, wsVars, pollVars>>

\* the device call returns or raises
DevCallEnd ==
  /\ \E i \in 1..Len(dev.active) :
       /\ dev.active[i].busy
       /\ dev' = [dev EXCEPT !.active[i].busy = FALSE, !.active[i].left = @ - 1]
  /\ UNCHANGED <<ussd, quoted, wsVars, pollVars>>

\* the handler passes its events to send and returns
HandlerReply ==
  /\ \E i \in 1..Len(dev.active) :
       /\ dev.active[i].left = 0
       /\ Reply(dev.active[i].m, HandlerEnv(dev.active[i].m))
       /\ dev' = [dev EXCEPT !.active = Without(@, i),
                             !.reps = Append(@, dev.active[i].m.id)]
  /\ UNCHANGED <<stopFlag, stopCalled, pc, ws, opened, conn, fails, slept, hellos, nmsgs>>
  /\ UNCHANGED <<ussd, quoted>>
  /\ UNCHANGED pollVars

\* the receive thread alone
HandlerNext ==
  \/ RunCheck \/ RunCreate \/ ConnOpen \/ OnOpen
  \/ HandlerBegin \/ DevCallBegin \/ DevCallEnd \/ HandlerReply

HandlerSpec == Init /\ [][HandlerNext]_vars

ThreadsNext ==
  \/ RunCheck \/ RunCreate \/ ConnOpen \/ OnOpen
  \/ HandlerBegin \/ DevCallBegin \/ DevCallEnd \/ HandlerReply
  \/ PollListBegin \/ PollListEnd \/ PollEmit \/ PollTrim \/ PollSleep

\* the receive thread and the poll thread, interleaved at their device calls
ThreadsSpec == Init /\ [][ThreadsNext]_vars

\* ------------------------------------------- send_ussd_and_read, step by step
\* the texts and nodes the dumped hierarchies of the model are built from
TxtSim1 == <<"S", "I", "M", " ", "1">>
TxtSim2 == <<"S", "I", "M", " ", "2">>
TxtOk   == <<" ", "O", "K", " ">>
TxtResp == <<"P", "u", "l", "s", "a", " ", "5", "0">>
Nodes ==
  {Node("Button", TxtSim1, <<>>, Box(0, 0, 10, 10)),
   Node("Button", TxtSim2, <<>>, Box(0, 10, 10, 21)),
   Node("Button", TxtSim1, <<>>, JunkBounds),
   Node("Button", TxtOk, <<>>, Box(20, 0, 30, 10)),
   Node("Button", <<>>, <<>>, Box(40, 0, 50, 10)),
   Node("TextView", TxtResp, <<>>, Box(0, 30, 10, 40)),
   Node("View", <<>>, TxtResp, NoBounds)}
\* longest hierarchy of the model, in nodes
MaxNodes == 2
Screens == UNION {[1..n -> Nodes] : n \in 0..MaxNodes}

UssdCodes == {PyNone, PyStr(<<>>), PyStr(<<"*", "1", "#">>), PyInt(5)}
UssdSims == {PyNone, PyInt(0), PyInt(1), PyInt(-1), PyStr(<<"1">>), PyStr(<<"x">>)}

\* lines 261-267: the empty-code return, the encoding and int(sim); quote()
\* of a value that is not a string and int() of a non-number raise into the
\* outer except
UssdStart ==
  /\ ussd.pc = "idle" /\ ~quoted.called
  /\ \E code \in UssdCodes, sim \in UssdSims, u2avail \in BOOLEAN :
       LET r == [NoRun EXCEPT !.code = code, !.sim = sim, !.u2avail = u2avail]
       IN  ussd' =
             IF EmptyCode(code)
             THEN [r EXCEPT !.pc = "done", !.result.error = "empty code"]
             ELSE IF code.tag # "str" \/ IntRaises(sim)
             THEN [r EXCEPT !.pc = "done", !.result.error = "exception"]
             ELSE [r EXCEPT !.pc = "dial", !.enc = _encode_ussd(code.s)]
  /\ UNCHANGED <<quoted, dev, wsVars, pollVars>>

\* where the code goes after the loop over the intents
AfterDialAlways(dialed, u2avail) == IF u2avail THEN "u2" ELSE "fallback"
AfterDial(dialed, u2avail) ==
  IF ~dialed THEN "done" ELSE IF u2avail THEN "u2" ELSE "fallback"

\* lines 275-285: the three dial intents and the `if not dialed` return
UssdDial ==
  /\ ussd.pc = "dial"
  /\ \E fail \in Fails :
       LET next == AfterDial(Dialed(fail), ussd.u2avail)
       IN  ussd' = [ussd EXCEPT
                      !.dials = 3, !.dialed = Dialed(fail), !.pc = next,
                      !.result.error = IF next = "done" /\ ~Dialed(fail)
                                       THEN "failed to send dial intent" ELSE @]
  /\ UNCHANGED <<quoted, dev, wsVars, pollVars>>

\* what one dump of the hierarchy gives: the dump command raises
\* ("dump_raise"), pull and cat both raise ("read_raise"), the text read is
\* not XML ("bad_xml", the empty string of `or ""` included), or it parses
\* to a screen
DumpIn(kind, screen) == [kind |-> kind, screen |-> screen]
DumpIns ==
  {DumpIn(k, <<>>) : k \in {"dump_raise", "read_raise", "bad_xml"}}
  \cup {DumpIn("screen", sc) : sc \in Screens}

\* result['raw_ui'] = xml_text is reached once the text has been read
RawUi(result, in) ==
  IF in.kind \in {"bad_xml", "screen"} THEN [result EXCEPT !.raw_ui = "ui"] ELSE result

\* the uiautomator2 block: connect() may raise; a label is clicked, or its
\* click raises, or none exists; then the same for the buttons; then
\* dump_hierarchy
U2In(connect, label, button, dump) ==
  [connect |-> connect, label |-> label, button |-> button, dump |-> dump]
U2Ins ==
  {U2In(FALSE, "none", "none", DumpIn("dump_raise", <<>>))}
  \cup {U2In(TRUE, l, b, d) :
          l \in {"none", "click", "raise"}, b \in {"none", "click", "raise"},
          d \in {in \in DumpIns : in.kind # "read_raise"}}

\* chosen after the label loop and the button block
U2Chosen(e) == e.label = "click" \/ e.button = "click"

\* lines 319-333: the result of the uiautomator2 block reaching its return
U2Result(result, in) ==
  [RawUi(result, in) EXCEPT
     !.ussd_text = IF in.kind = "screen" THEN ExtractText(in.screen) ELSE @,
     !.ok = TRUE]

\* lines 291-338
UssdU2 ==
  /\ ussd.pc = "u2"
  /\ \E e \in U2Ins :
       ussd' =
         IF ~e.connect
         THEN [ussd EXCEPT !.u2ran = TRUE, !.pc = "fallback"]
         ELSE LET r == [ussd EXCEPT !.u2ran = TRUE,
                                    !.selects = IF U2Chosen(e) THEN @ + 1 ELSE @]
              IN  IF e.dump.kind = "dump_raise"
                  THEN [r EXCEPT !.pc = "fallback"]
                  ELSE [r EXCEPT !.pc = "done", !.captured = TRUE,
                                 !.shot = e.dump, !.chosen = U2Chosen(e),
                                 !.result = U2Result(@, e.dump)]
  /\ UNCHANGED <<quoted, dev, wsVars, pollVars>>

\* for attempt in range(4)
FallbackRange == 4

\* one attempt of the fallback: the tap it makes, if any
AttemptTap(in, sim) ==
  IF in.kind # "screen" THEN <<>>
  ELSE LET t == PickTarget(in.screen, sim)
       IN  IF ~t.raised /\ t.found /\ Tappable(t.bounds) THEN TapPoint(t.bounds) ELSE <<>>

\* lines 342-401: an attempt dumps, searches the target and taps it; a tap
\* that returns sets chosen and leaves the loop
UssdAttempt ==
  /\ ussd.pc = "fallback"
  /\ \E in \in DumpIns, tapRaises \in BOOLEAN :
       LET tap    == AttemptTap(in, ussd.sim)
           chosen == tap # <<>> /\ ~tapRaises
           n      == ussd.attempts + 1
       IN  /\ tapRaises => tap # <<>>
           /\ ussd' = [ussd EXCEPT
                         !.attempts = n, !.chosen = chosen,
                         !.selects = IF chosen THEN @ + 1 ELSE @,
                         !.result = RawUi(@, in),
                         !.pc = IF chosen \/ n = FallbackRange THEN "capture" ELSE "fallback"]
  /\ UNCHANGED <<quoted, dev, wsVars, pollVars>>

\* CaptureResult without the try/except around the capture
CaptureResultUnguarded(result, in) ==
  IF in.kind = "screen"
  THEN [RawUi(result, in) EXCEPT !.ussd_text = ExtractText(in.screen), !.ok = TRUE]
  ELSE [RawUi(result, in) EXCEPT !.error = "exception"]

\* lines 404-431: the capture, every raise of which is passed over
CaptureResult(result, in) ==
  [RawUi(result, in) EXCEPT
     !.ussd_text = IF in.kind = "screen" THEN ExtractText(in.screen) ELSE @,
     !.ok = TRUE]

UssdCapture ==
  /\ ussd.pc = "capture"
  /\ \E in \in DumpIns :
       ussd' = [ussd EXCEPT !.pc = "done", !.captured = TRUE, !.shot = in,
                            !.result = CaptureResult(@, in)]
  /\ UNCHANGED <<quoted, dev, wsVars, pollVars>>

\* quote(code, safe='') on a code over the dial alphabet
DialAlphabet == {"*", "#", "1", "+"}
\* longest code handed to _encode_ussd
MaxCode == 3
DialCodes == UNION {[1..n -> DialAlphabet] : n \in 0..MaxCode}

EncodeCall ==
  /\ ussd.pc = "idle" /\ ~quoted.called
  /\ \E code \in DialCodes :
       quoted' = [called |-> TRUE, code |-> code, enc |-> _encode_ussd(code)]
  /\ UNCHANGED <<ussd, dev, wsVars, pollVars>>

UssdNext ==
  \/ UssdStart \/ UssdDial \/ UssdU2 \/ UssdAttempt \/ UssdCapture \/ EncodeCall

UssdSpec == Init /\ [][UssdNext]_vars

RunStep == RunCheck \/ RunCreate \/ OnOpen \/ RunReturn \/ RunSleep
Handshake == ConnOpen \/ ConnFail

Next ==
  \/ RunCheck \/ RunCreate \/ ConnOpen \/ ConnFail \/ ConnDrop
  \/ OnOpen \/ OnMessage \/ RunReturn \/ RunSleep \/ Stop

Spec == Init /\ [][Next]_vars

\* the poll thread beside the connection thread
PollNext ==
  \/ PollList \/ PollEmit \/ PollTrim \/ PollSleep
  \/ RunCheck \/ RunCreate \/ ConnOpen \/ ConnFail \/ ConnDrop \/ OnOpen
  \/ RunReturn \/ RunSleep \/ Stop

PollSpec == Init /\ [][PollNext]_vars

\* the poll loop's sends beside a connection that is made and lost
SendNext ==
  \/ PollList \/ PollEmit \/ PollTrim \/ PollSleep
  \/ RunCheck \/ RunCreate \/ ConnOpen \/ ConnDrop \/ OnOpen

SendSpec == Init /\ [][SendNext]_vars

\* the _run thread is scheduled and a handshake ends within its timeout
FairSpec == Spec /\ WF_vars(RunStep) /\ WF_vars(Handshake)

\* ------------------------------------------------------------ dispatcher properties
\* a message has been handled on this connection
Handled == nmsgs > 0
\* the handled message is an envelope: a JSON object
HandledEnvelope == Handled /\ last.msg.kind = "map"
ResultTypes == {"send_sms_result", "open_app_result", "adb_shell_result",
                "send_ussd_result", "unknown_action", "error"}

\* C1: every inbound envelope handled by _on_message produces exactly one
\* outbound event, never zero and never two.
C1_ExactlyOneEvent == HandledEnvelope => Len(last.events) = 1

\* C2: for an envelope with a recognized action, every event _on_message
\* emits carries the id of the request envelope.
C2_ReplyIdMatches ==
  (HandledEnvelope /\ last.msg.action \in RecognizedActions)
    => \A i \in 1..Len(last.events) : last.events[i].id = last.msg.id

\* an open_app request with id 2 whose launch raised: error event and result
C2_Witness ==
  /\ HandledEnvelope /\ last.msg.action = "open_app" /\ last.msg.id = 2
  /\ Len(last.events) = 2

\* C3: a malformed payload (text that does not parse, or a parsed value that
\* is not a mapping) makes _on_message emit no reply and raise nothing.
C3_MalformedDropped ==
  (Handled /\ last.msg.kind # "map") => (last.events = <<>> /\ ~last.raised)

\* C8: on every connection bridge_hello reaches the peer before any command
\* result event does.
C8_HelloBeforeResults ==
  \A i \in 1..Len(wire) :
    wire[i] \in ResultTypes => \E j \in 1..(i - 1) : wire[j] = "bridge_hello"

\* a connection on which the hello and then a USSD result were received
C8_Witness == wire = <<"bridge_hello", "send_ussd_result">>

\* C10: send_ussd with an empty code replies ok=false with a non-null error
\* and makes no device call at all.
C10_EmptyCodeNoDial ==
  (HandledEnvelope /\ last.msg.action = "send_ussd" /\ last.msg.data.isMap
     /\ ~Truthy(last.msg.data.code))
    => /\ Len(last.events) = 1
       /\ last.events[1].type = "send_ussd_result"
       /\ last.events[1].result.ok = FALSE
       /\ last.events[1].result.error # None
       /\ last.cmds = <<>>

\* a send_ussd request whose code is the empty string has been answered
C10_Witness ==
  /\ HandledEnvelope /\ last.msg.action = "send_ussd" /\ last.msg.data.isMap
  /\ last.msg.data.code = PyStr(<<>>)
  /\ last.delivered = 1

\* a send_sms request whose handler ran to its reply
SmsAnswered ==
  /\ HandledEnvelope /\ last.msg.action = "send_sms" /\ ~last.raised

\* C12: when both adb intents of send_sms raise, termux-sms-send is tried
\* and the reply send_sms_result carries ok = True exactly when it returned;
\* the first call that returns ends the sending with ok = True and no later
\* call is made.
C12_SmsFallback ==
  SmsAnswered =>
    /\ Types(last.events) = <<"send_sms_result">>
    /\ Len(last.cmds) \in 1..3
    /\ \A i \in 1..Len(last.cmds) :
         /\ last.cmds[i].kind = (IF i = 3 THEN "termux_sms_send" ELSE "sms_intent")
         /\ ~last.cmds[i].raised => i = Len(last.cmds) /\ last.events[1].ok
    /\ (\A i \in 1..Len(last.cmds) : last.cmds[i].raised)
         => Len(last.cmds) = 3 /\ ~last.events[1].ok

\* both intents raised and termux-sms-send sent the message
C12_Witness ==
  /\ SmsAnswered /\ Len(last.cmds) = 3 /\ ~last.cmds[3].raised
  /\ last.events[1].ok /\ last.delivered = 1

\* an envelope whose action none of the four branches names
UnknownHandled == HandledEnvelope /\ last.msg.action \notin RecognizedActions

\* C13: an envelope whose action is not recognized makes _on_message pass
\* exactly one unknown_action event to send, carrying the received action
\* and the request id.
C13_UnknownEchoed ==
  UnknownHandled =>
    /\ ~last.raised
    /\ last.events = <<[type |-> "unknown_action", action |-> last.msg.action,
                        id |-> last.msg.id]>>

\* find_ui with id 2 has been answered and the answer reached the peer
C13_Witness ==
  /\ UnknownHandled /\ last.msg.action = "find_ui" /\ last.msg.id = 2
  /\ last.delivered = 1

\* the actions of the wire-protocol table and the reply type of each row
TableActions == RecognizedActions \cup {"find_ui", "click_ui"}
ReplyType(a) ==
  CASE a = "send_sms" -> "send_sms_result" [] a = "open_app" -> "open_app_result"
    [] a = "adb_shell" -> "adb_shell_result" [] a = "send_ussd" -> "send_ussd_result"
    [] a = "find_ui" -> "find_ui_result" [] OTHER -> "click_ui_result"

\* C14: every action of the wire-protocol table is answered with the reply
\* type of its row (the handler's last event), find_ui and click_ui included.
C14_TableDispatch ==
  (HandledEnvelope /\ last.msg.action \in TableActions /\ ~last.raised)
    => /\ last.events # <<>>
       /\ last.events[Len(last.events)].type = ReplyType(last.msg.action)

\* ------------------------------------------------------------ run loop properties
\* C7: when the transport closes or fails and stop has not been requested,
\* _run attempts a new connection, whatever the number of failures in a row;
\* it does so after the 5 second sleep; and every connection that opens
\* passes one bridge_hello of its own to send.
C7_Reconnects ==
  /\ (sock = "closed" /\ ~stopFlag) ~> (stopFlag \/ sock = "connecting")
  /\ [][(sock # "connecting" /\ sock' = "connecting" /\ conn # 0)
          => slept = ReconnectDelay]_vars
  /\ [](opened = "done" => hellos = <<Uuid(conn)>>)

\* a connection attempt made after two failures in a row and the sleep
C7_Witness == fails >= 2 /\ sock = "connecting" /\ slept = ReconnectDelay /\ ~stopFlag

\* C9: once stop() has been called the run loop eventually exits and no
\* transport stays open.
C9_StopTerminates == stopCalled ~> (pc = "exited" /\ sock # "open")

\* ------------------------------------------------------------ poll loop properties
\* number of times identifier x occurs in the sequence q
Count(q, x) == Cardinality({i \in 1..Len(q) : q[i] = x})
\* identifiers of the well-formed records of this cycle's listing
ListedMids == {Mid(cycle.listing[i]) :
                 i \in {j \in 1..Len(cycle.listing) : cycle.listing[j].isDict}}
\* the poll loop has reached its sleep
AtSleep == pollPc = "sleep"

\* C4: in a poll cycle a record whose identifier was already in the SeenSet
\* is not emitted again, and a record whose identifier was absent is emitted
\* exactly once and its identifier added, whatever the connection state.
C4_EmittedOnce ==
  AtSleep =>
    \A x \in ListedMids :
      IF x \in cycle.before THEN Count(cycle.got, x) = 0
      ELSE x \in last_seen_ids => Count(cycle.got, x) = 1

\* C5: two unseen records listed A then B in one cycle are emitted A first.
C5_OldestFirst ==
  \A i, j \in 1..Len(cycle.listing) :
    (/\ i < j
     /\ cycle.listing[i].isDict /\ cycle.listing[j].isDict
     /\ Mid(cycle.listing[i]) # Mid(cycle.listing[j])
     /\ Mid(cycle.listing[i]) \notin cycle.before
     /\ Mid(cycle.listing[j]) \notin cycle.before
     /\ \E a, b \in 1..Len(cycle.got) :
          cycle.got[a] = Mid(cycle.listing[i]) /\ cycle.got[b] = Mid(cycle.listing[j]))
    => \E a, b \in 1..Len(cycle.got) :
         /\ a < b
         /\ cycle.got[a] = Mid(cycle.listing[i]) /\ cycle.got[b] = Mid(cycle.listing[j])

\* C6: each time the poll loop reaches its sleep the SeenSet holds at most
\* the ceiling, also when the cycle raised part-way through.
C6_SeenBounded == AtSleep => Cardinality(last_seen_ids) <= SeenCeiling

\* C16: WSClient.send never raises into its caller: with self.ws unset or
\* with the transport's send raising, the event is lost and the poll loop and
\* the handler go on.
C16_SendNeverRaises == ~cycle.sendRaised /\ ~last.sendRaised

\* a poll cycle lost an event to a dead transport and went on to its sleep
C16_Witness ==
  /\ AtSleep /\ ~cycle.raised /\ cycle.lost = "failed"
  /\ \E x \in ListedMids \ cycle.before : Count(cycle.got, x) = 0

\* C23: a poll cycle whose listing call failed emits no event and leaves
\* last_seen_ids as it was, nothing is raised out of the cycle, and the loop
\* goes to its sleep and from there to the next cycle.
C23_ListingFailureSkips ==
  (cycle.failed /\ pollPc \in {"emit", "sleep"}) =>
    /\ cycle.got = <<>> /\ pollNew = <<>>
    /\ ~cycle.raised
    /\ last_seen_ids = cycle.before

\* ------------------------------------------------------------ thread properties
\* device calls in flight: those of the handlers and the poll loop's listing
InFlight ==
  Cardinality({i \in 1..Len(dev.active) : dev.active[i].busy})
  + (IF dev.poll THEN 1 ELSE 0)

\* C17: no two device-command calls are in flight at the same time: the
\* calls of the receive thread's handlers and the inbox listing of the poll
\* thread are serialized.
C17_DeviceCallsSerialized == InFlight <= 1

\* C18: once stop has been requested the poll loop ends the cycle or the
\* sleep it is in and goes round no more: a sleep that ends after the stop
\* request is not followed by another cycle.
C18_StopEndsPolling == [][(stopCalled /\ pollPc = "sleep") => pollPc' # "list"]_vars

\* C19: handlers run to completion one at a time: a handler starts only after
\* the reply of the previous envelope was passed to send, replies follow the
\* order of the requests, and at most one USSD run is in progress.
C19_OneAtATime ==
  /\ Len(dev.active) <= 1
  /\ Len(dev.reqs) <= Len(dev.reps) + 1
  /\ Len(dev.reps) <= Len(dev.reqs)
  /\ \A i \in 1..Len(dev.reps) : dev.reps[i] = dev.reqs[i]
  /\ Cardinality({i \in 1..Len(dev.active) : dev.active[i].m.action = "send_ussd"}) <= 1

\* request 2 then request 1, a USSD run, were received and answered in turn
C19_Witness ==
  /\ dev.reqs = <<2, 1>> /\ dev.reps = <<2, 1>>
  /\ last.msg.action = "send_ussd" /\ last.delivered = 1

\* ------------------------------------------------------------ USSD properties
\* percent-decoding: "%" followed by two hex digits is the character of that
\* code; any other character stands for itself
HexPairs == {<<"2", "3">>, <<"2", "A">>, <<"2", "B">>, <<"2", "5">>, <<"3", "F">>}
HexChar(h) ==
  CASE h = <<"2", "3">> -> "#" [] h = <<"2", "A">> -> "*" [] h = <<"2", "B">> -> "+"
    [] h = <<"2", "5">> -> "%" [] OTHER -> "?"
RECURSIVE Unquote(_)
Unquote(t) ==
  IF t = <<>> THEN <<>>
  ELSE IF Head(t) = "%" /\ Len(t) >= 3 /\ <<t[2], t[3]>> \in HexPairs
  THEN <<HexChar(<<t[2], t[3]>>)>> \o Unquote(SubSeq(t, 4, Len(t)))
  ELSE <<Head(t)>> \o Unquote(Tail(t))

HasChar(t, c) == \E i \in 1..Len(t) : t[i] = c

\* C15: for every code over the dial alphabet, percent-decoding
\* _encode_ussd(code) gives back the code, and the encoded string holds no
\* raw "#"
C15_EncodeRoundTrips ==
  quoted.called => Unquote(quoted.enc) = quoted.code /\ ~HasChar(quoted.enc, "#")
\* a code with the terminator has been encoded
C15_Witness == quoted.called /\ HasChar(quoted.code, "#") /\ Len(quoted.code) > 1

\* C11: a run with a non-empty code in which a dial intent was issued ends
\* with ok = True and error = None, whatever the SIM prompt and the capture
\* did; a run that extracted no text carries ussd_text = None beside them
C11_DialedEndsOk ==
  ussd.pc = "done" /\ ussd.dialed =>
    /\ ussd.result.ok
    /\ ussd.result.error = None
    /\ ussd.result.ussd_text.tag \in {"none", "str"}
\* a dialed run that found no prompt to resolve and extracted no text
C11_Witness ==
  /\ ussd.pc = "done" /\ ussd.dialed /\ ussd.attempts = FallbackRange
  /\ ussd.selects = 0 /\ ussd.result.ussd_text = PyNone /\ ussd.result.ok

\* C20: when every dial intent raises the run ends at once with ok = False
\* and an error, without SIM-prompt resolution or capture; when one is issued
\* the run goes on to the SIM-prompt resolution
C20_DialGate ==
  ussd.dials = 3 =>
    IF ~ussd.dialed
    THEN /\ ussd.pc = "done" /\ ~ussd.result.ok /\ ussd.result.error # None
         /\ ~ussd.u2ran /\ ussd.attempts = 0 /\ ~ussd.captured
    ELSE ussd.pc \in {"u2", "fallback"} \/ ussd.u2ran \/ ussd.attempts > 0
\* a run all of whose dial intents raised
C20_Witness == ussd.dials = 3 /\ ~ussd.dialed /\ ussd.pc = "done"

\* C21: the SIM-prompt resolution is bounded: at most four fallback attempts,
\* none after the attempt whose tap returned, at most one selection (click or
\* tap) in the run over the uiautomator2 block and the fallback together, and
\* a dialed run always reaches the capture.
C21_ResolutionBounded ==
  /\ ussd.attempts <= FallbackRange
  /\ ussd.selects <= 1
  /\ (ussd.pc = "fallback" /\ ussd.attempts > 0) => ~ussd.chosen
  /\ (ussd.pc = "done" /\ ussd.dialed) => ussd.captured

\* the stripped text of node i of the captured hierarchy: its text, or its
\* content description when the text is empty
ShotText(i) ==
  LET n == ussd.shot.screen[i]
  IN  Strip(IF n.text # <<>> THEN n.text ELSE n.desc)
\* the nodes whose stripped text is longer than 3 characters
Qualifying == {i \in 1..Len(ussd.shot.screen) : Len(ShotText(i)) > 3}

\* C22: ussd_text is the longest stripped text of the captured hierarchy
\* among the nodes whose stripped text (content description when the text is
\* empty) is longer than 3 characters, and None when no node qualifies; a
\* text of 3 characters or fewer is never returned.
C22_LongestText ==
  (ussd.pc = "done" /\ ussd.captured /\ ussd.shot.kind = "screen") =>
    /\ IF Qualifying = {} THEN ussd.result.ussd_text = PyNone
       ELSE \E i \in Qualifying :
              /\ ussd.result.ussd_text = PyStr(ShotText(i))
              /\ \A j \in Qualifying : Len(ShotText(j)) <= Len(ShotText(i))
    /\ ussd.result.ussd_text.tag = "str" => Len(ussd.result.ussd_text.s) > 3
\* a capture with a short text and a longer one, the shorter first
C22_Witness ==
  /\ ussd.pc = "done" /\ ussd.captured /\ ussd.shot.kind = "screen"
  /\ Len(ussd.shot.screen) = 2
  /\ Len(ShotText(1)) \in 1..3 /\ Len(ShotText(2)) > 3
  /\ ussd.result.ussd_text = PyStr(ShotText(2))

====
